---- MODULE Spec2Model ----
(***************************************************************************)
(* Model of mdplot's static structure factor plotter, src/mdplot/ssf.py:   *)
(* plot() as a sequential state machine (one action per block of the       *)
(* function), with the lattice generation, the shell selection, the CUDA   *)
(* kernel driver ssf_cuda() and the sample aggregation computed as the     *)
(* code computes them.                                                     *)
(*                                                                         *)
(* Units.  A box length is written l, meaning L = 2*pi*l, so that          *)
(* q_min = 2*pi/L = 1/l.  q_limit is written in halves (ql = 2*q_limit),   *)
(* q_error in tenths (qe = 10*q_error).  Particle coordinates are written  *)
(* in quarters of the box length, so that a phase q.r is a multiple of     *)
(* pi/2 and its sine and cosine are exactly -1, 0 or 1.  Floating point    *)
(* sums are exact rationals [n, d]; the single precision of the CUDA path  *)
(* is a rounding error of e/RoundDen, e chosen from RoundErr per run.      *)
(***************************************************************************)
EXTENDS Integers, Sequences, FiniteSets, TLC

\* ---------------------------------------------------------------- bounds
MaxFiles == 2        \* most input files on one command line
MaxQLimit == 2       \* largest q_limit tried, in halves
RoundDen == 1000     \* a single precision rounding error is e/RoundDen
RoundErr == {0, 1}   \* the rounding errors e single precision may make
TimeDeltas == {0, 1} \* clock ticks between two calls of time()
MaxTicks == 1        \* a timer is followed up to this many ticks

\* ------------------------------------------------------ exact arithmetic
Abs(x) == IF x < 0 THEN -x ELSE x
Sign(x) == IF x < 0 THEN -1 ELSE IF x > 0 THEN 1 ELSE 0

RECURSIVE Gcd(_, _)
Gcd(a, b) == IF b = 0 THEN a ELSE Gcd(b, a % b)

\* the rational n/d in lowest terms; d = 0 stands for inf (n # 0) or nan
Rat(n, d) ==
    IF d = 0 THEN [n |-> Sign(n), d |-> 0]
    ELSE LET g == Gcd(Abs(n), Abs(d))
         IN  [n |-> Sign(d) * (n \div g), d |-> Abs(d) \div g]

Zero == Rat(0, 1)
Lcm(a, b) == IF a = 0 \/ b = 0 THEN 0 ELSE (a \div Gcd(a, b)) * b
RAdd(x, y) ==
    LET d == Lcm(x.d, y.d)
    IN  IF d = 0 THEN Rat(x.n * y.d + y.n * x.d, 0)
        ELSE Rat(x.n * (d \div x.d) + y.n * (d \div y.d), d)
RNeg(x) == [n |-> 0 - x.n, d |-> x.d]
RSub(x, y) == RAdd(x, RNeg(y))
RDiv(x, y) == Rat(x.n * y.d, x.d * y.n)
RAbs(x) == [n |-> Abs(x.n), d |-> x.d]
RLess(x, y) == x.n * y.d < y.n * x.d

RECURSIVE Pow(_, _)
Pow(b, e) == IF e <= 0 THEN 1 ELSE b * Pow(b, e - 1)

RECURSIVE SumSeq(_)
SumSeq(s) == IF s = <<>> THEN 0 ELSE Head(s) + SumSeq(Tail(s))

RECURSIVE RSumSeq(_)
RSumSeq(s) == IF s = <<>> THEN Zero ELSE RAdd(Head(s), RSumSeq(Tail(s)))

\* Python's int() of a float: truncation towards zero of num/den
Trunc(num, den) ==
    LET q == Abs(num) \div Abs(den)
    IN  IF Sign(num) * Sign(den) < 0 THEN -q ELSE q

\* ------------------------------------------------------- the sample option
Digits == {"0", "1", "2", "3", "4", "5", "6", "7", "8", "9"}
DigitVal(c) == CHOOSE v \in 0..9 : <<"0", "1", "2", "3", "4", "5", "6", "7", "8", "9">>[v + 1] = c

\* re.split(':', s): the pieces of s between the colons, empty ones included
RECURSIVE SplitColon(_)
SplitColon(s) ==
    IF s = <<>> THEN << <<>> >>
    ELSE LET rest == SplitColon(Tail(s))
         IN  IF Head(s) = ":" THEN << <<>> >> \o rest
             ELSE << <<Head(s)>> \o Head(rest) >> \o Tail(rest)

\* int(x) succeeds on a non-empty string of digits
IsInt(tok) == tok # <<>> /\ \A k \in 1..Len(tok) : tok[k] \in Digits

RECURSIVE IntOf(_)
IntOf(tok) ==
    IF tok = <<>> THEN 0
    ELSE 10 * IntOf(SubSeq(tok, 1, Len(tok) - 1)) + DigitVal(tok[Len(tok)])

\* --------------------------------------------------------- numpy arrays
\* an array is its shape and its elements in C order

\* indices(repeat(n, dim)): shape (dim, n, ..., n); element (d, p) is the
\* d-th digit of p written in base n
Indices(n, dim) ==
    LET N == Pow(n, dim)
    IN  [shape |-> <<dim>> \o [k \in 1..dim |-> n],
         data  |-> [x \in 1..(dim * N) |->
                       LET d == (x - 1) \div N
                           p == (x - 1) % N
                       IN  (p \div Pow(n, dim - 1 - d)) % n]]

Size(a) == Len(a.data)

\* reshape(a, (rows, -1))
Reshape(a, rows) == [shape |-> <<rows, Size(a) \div rows>>, data |-> a.data]

\* dstack of the rows of a 2-d array (dim, N): shape (1, N, dim)
DStack(a) ==
    LET dim == a.shape[1]
        N == a.shape[2]
    IN  [shape |-> <<1, N, dim>>,
         data  |-> [x \in 1..(N * dim) |->
                       LET p == (x - 1) \div dim
                           d == (x - 1) % dim
                       IN  a.data[d * N + p + 1]]]

\* squeeze: every axis of length 1 is removed
Squeeze(a) == [shape |-> SelectSeq(a.shape, LAMBDA n : n # 1), data |-> a.data]

\* line 94, without the factor q_min: the grid in units of q_min
QGrid(nq, dim) == Squeeze(DStack(Reshape(Indices(nq + 1, dim), dim)))

\* row p (from 0) of a 2-d array
Row(a, p) == SubSeq(a.data, p * a.shape[2] + 1, (p + 1) * a.shape[2])

\* line 96, squared and in units of q_min^2: sum(q_grid * q_grid, axis=1)
QNorm2(a) == [p \in 1..a.shape[1] |-> SumSeq([k \in 1..a.shape[2] |-> Row(a, p - 1)[k] * Row(a, p - 1)[k]])]

\* line 89: nq = int(q_limit / q_min), with q_limit = ql/2 and q_min = 1/l;
\* a box length of 0 gives q_min = inf and nq = int(0.0)
NumQ(ql, l) == IF l = 0 THEN 0 ELSE Trunc(ql * l, 2)

\* line 109, one grid vector: abs(q_norm - q_val) < q_err, where
\* q_norm = |q_min| sqrt(n2), q_val = q_min k, q_err = q_min qe/10;
\* divided by |q_min|, with sg the sign of q_min
InShell(n2, k, qe, sg) ==
    LET c == 10 * sg * k
        A == sg * qe
    IN  /\ A > 0
        /\ (c - A < 0 \/ (c - A) * (c - A) < 100 * n2)
        /\ (c + A > 0 /\ 100 * n2 < (c + A) * (c + A))

\* line 109: the rows of the grid whose norm lies in the shell of q_range[k]
SelectShell(grid, norm2, k, qe, sg) ==
    LET hit == SelectSeq([p \in 1..Len(norm2) |-> p], LAMBDA p : InShell(norm2[p], k, qe, sg))
    IN  [p \in 1..Len(hit) |-> Row(grid, hit[p] - 1)]

\* ------------------------------------------------------------- the kernels
\* sine and cosine of m quarter turns
SinQ(m) == <<0, 1, 0, -1>>[(m % 4) + 1]
CosQ(m) == <<1, 0, -1, 0>>[(m % 4) + 1]

\* line 242: r.T.flatten(), (x0, x1, ..., xN, y0, y1, ..., yN, ...)
FlattenT(r, dim) ==
    LET npart == Len(r)
    IN  [x \in 1..(npart * dim) |-> r[((x - 1) % npart) + 1][((x - 1) \div npart) + 1]]

\* line 249: q.flatten()
Flatten(q, dim) == [x \in 1..(Len(q) * dim) |-> q[((x - 1) \div dim) + 1][((x - 1) % dim) + 1]]

\* the CUDA kernel compute_ssf, thread i: the phase q.r of particle i
PhaseOf(gpu_q, gpu_r, offset, i, npart, dim) ==
    SumSeq([k \in 1..dim |-> gpu_q[(k - 1) + offset * dim + 1] * gpu_r[i + (k - 1) * npart + 1]])

\* lines 253-262, one wavevector: sum(sin)^2 + sum(cos)^2
Intensity(gpu_q, gpu_r, offset, npart, dim) ==
    LET s == SumSeq([i \in 1..npart |-> SinQ(PhaseOf(gpu_q, gpu_r, offset, i - 1, npart, dim))])
        c == SumSeq([i \in 1..npart |-> CosQ(PhaseOf(gpu_q, gpu_r, offset, i - 1, npart, dim))])
    IN  s * s + c * c

\* line 264: result / (nq * npart), on Python numbers
Normalize(result, nq, npart) ==
    IF nq * npart = 0
    THEN [ok |-> FALSE, err |-> "ZeroDivisionError", line |-> 264, val |-> Zero]
    ELSE [ok |-> TRUE, err |-> "", line |-> 0, val |-> Rat(result, nq * npart)]

\* ssf_cuda(q, r) for q of shape (nq, dim), on a device whose single
\* precision rounds the value by e/RoundDen
SsfCuda(q, dim, r, e) ==
    LET nq == Len(q)
        npart == Len(r)
        gpu_r == FlattenT(r, dim)
        gpu_q == Flatten(q, dim)
        result == SumSeq([i \in 1..nq |-> Intensity(gpu_q, gpu_r, i - 1, npart, dim)])
        exact == Normalize(result, nq, npart)
    IN  IF exact.ok THEN [exact EXCEPT !.val = RAdd(@, Rat(e, RoundDen))] ELSE exact

\* _static_structure_factor(q, r), the host kernel of mdplot.ext:
\* S = 1/(m n) sum_q [(sum_i sin q.r_i)^2 + (sum_i cos q.r_i)^2]; the
\* outcomes of one call: an empty shell is either rejected or answered by
\* the sentinel 0
StaticStructureFactor(q, dim, r) ==
    LET m == Len(q)
        n == Len(r)
        term(v) ==
            LET s == SumSeq([i \in 1..n |-> SinQ(SumSeq([k \in 1..dim |-> v[k] * r[i][k]]))])
                c == SumSeq([i \in 1..n |-> CosQ(SumSeq([k \in 1..dim |-> v[k] * r[i][k]]))])
            IN  s * s + c * c
    IN  IF m * n = 0
        THEN {[ok |-> FALSE, err |-> "InvalidParameter", line |-> 0, val |-> Zero],
              [ok |-> TRUE, err |-> "", line |-> 0, val |-> Zero]}
        ELSE {[ok |-> TRUE, err |-> "", line |-> 0,
               val |-> Rat(SumSeq([p \in 1..m |-> term(q[p])]), m * n)]}

\* ------------------------------------------------------ the HDF5 files
\* the trajectory files an invocation may name: whether the file opens,
\* whether its trajectory node exists, box length l, dimension, and the
\* stored samples r (one list of particle positions per sample)
Store ==
    [fn \in {"a.h5", "b.h5", "missing.h5", "nonode.h5", "negbox.h5", "zerobox.h5"} |->
        CASE fn = "a.h5" ->
                [exists |-> TRUE, nodes |-> TRUE, l |-> 1, dim |-> 2,
                 r |-> << << <<0, 0>>, <<0, 0>>, <<0, 0>>, <<2, 2>> >>,
                          << <<0, 0>>, <<0, 0>>, <<0, 1>>, <<0, 1>> >>,
                          << <<0, 0>>, <<0, 0>>, <<0, 2>>, <<0, 2>> >> >>]
          [] fn = "b.h5" ->
                [exists |-> TRUE, nodes |-> TRUE, l |-> 2, dim |-> 3,
                 r |-> << << <<0, 0, 0>>, <<1, 2, 3>> >>,
                          << <<1, 0, 0>>, <<1, 1, 2>> >> >>]
          [] fn = "missing.h5" ->
                [exists |-> FALSE, nodes |-> FALSE, l |-> 1, dim |-> 2, r |-> <<>>]
          [] fn = "nonode.h5" ->
                [exists |-> TRUE, nodes |-> FALSE, l |-> 1, dim |-> 2, r |-> <<>>]
          [] fn = "negbox.h5" ->
                [exists |-> TRUE, nodes |-> TRUE, l |-> -1, dim |-> 2,
                 r |-> << << <<0, 0>>, <<1, 0>> >> >>]
          [] OTHER ->
                [exists |-> TRUE, nodes |-> TRUE, l |-> 0, dim |-> 2,
                 r |-> << << <<0, 0>>, <<1, 0>> >> >>]]

FileNames == DOMAIN Store

\* the command lines tried: --sample, --q-limit (halves), --q-error (tenths)
SampleArgs ==
    { <<"0">>, <<"2">>, <<"0", ":", "2">>, <<"0", ":", "3">>, <<"5", ":", "9">>,
      <<"x">>, <<"0", ":", "1", ":", "2">> }
MinQLimit == 0 - 2
QLimits == MinQLimit..MaxQLimit
QErrors == {0, 1, 5}

InputLists == UNION {[1..n -> FileNames] : n \in 1..MaxFiles}

\* ------------------------------------------------------------- the state
VARIABLES
    args,          \* the parsed command line
    fp32,          \* the rounding error e of the CUDA device
    pc,            \* the block of plot() to run next
    error,         \* the exception that ended the run
    i,             \* index of the input file being processed (from 1)
    samples_bound, \* whether the local samples has been assigned
    samples,       \* the trajectory samples read last
    L,             \* box length l of the file
    dim,           \* dimension of the file
    nq,            \* number of |q| values
    q_grid,        \* the q-grid, in units of q_min
    q_norm,        \* the squared norms of the grid vectors
    j,             \* index of the shell (from 1)
    q,             \* the wavevectors of shell j
    s,             \* index of the sample within shell j (from 1)
    S_q,           \* the sums that are plotted
    S_q2,          \* the sums of the host kernel next to the CUDA kernel
    timer_gpu,
    timer_host,
    idx,           \* where(diff > 1e-6), the shells reported
    plotted,       \* what ax.plot() has been given, per file
    shown,         \* whether the figure has been shown or saved
    calls          \* the kernel calls of this file: shell, sample, CUDA and host value

vars == <<args, fp32, pc, error, i, samples_bound, samples, L, dim, nq, q_grid, q_norm,
          j, q, s, S_q, S_q2, timer_gpu, timer_host, idx, plotted, shown, calls>>

NoError == [kind |-> "", line |-> 0]
NoArray == [shape |-> <<0>>, data |-> <<>>]

Init ==
    /\ args \in [input : InputLists, sample : SampleArgs, q_limit : QLimits,
                 q_error : QErrors, cuda : BOOLEAN]
    /\ fp32 \in (IF args.cuda THEN RoundErr ELSE {0})
    /\ pc = "start"
    /\ error = NoError
    /\ i = 0
    /\ samples_bound = FALSE
    /\ samples = <<>>
    /\ L = 0
    /\ dim = 0
    /\ nq = 0
    /\ q_grid = NoArray
    /\ q_norm = <<>>
    /\ j = 0
    /\ q = <<>>
    /\ s = 0
    /\ S_q = <<>>
    /\ S_q2 = <<>>
    /\ timer_gpu = 0
    /\ timer_host = 0
    /\ idx = {}
    /\ plotted = <<>>
    /\ shown = FALSE
    /\ calls = <<>>

\* an exception leaves plot(): nothing else changes
Raise(kind, line) ==
    /\ pc' = "error"
    /\ error' = [kind |-> kind, line |-> line]

\* -------------------------------------------------------------- plot()
File == Store[args.input[i]]

Min(a, b) == IF a < b THEN a ELSE b

\* trajectory.r[a:b]: a slice is clipped to the stored samples
Slice(r, a, b) == SubSeq(r, a + 1, Min(b, Len(r)))

\* lines 37-46: set up, then the first input file
Start ==
    /\ pc = "start"
    /\ i' = 1
    /\ pc' = "open"
    /\ UNCHANGED <<args, fp32, error, samples_bound, samples, L, dim, nq, q_grid, q_norm,
                   j, q, s, S_q, S_q2, timer_gpu, timer_host, idx, plotted, shown, calls>>

\* a file that does not open is skipped
OpenFileSkipping ==
    /\ pc = "open"
    /\ IF File.exists
       THEN pc' = "read" /\ i' = i
       ELSE IF i < Len(args.input)
       THEN pc' = "open" /\ i' = i + 1
       ELSE pc' = "finish" /\ i' = i
    /\ UNCHANGED <<args, fp32, error, samples_bound, samples, L, dim, nq, q_grid, q_norm,
                   j, q, s, S_q, S_q2, timer_gpu, timer_host, idx, plotted, shown, calls>>

\* lines 48-52: open the file, SystemExit when that fails
OpenFile ==
    /\ pc = "open"
    /\ IF File.exists
       THEN pc' = "read" /\ error' = error
       ELSE Raise("SystemExit", 52)
    /\ UNCHANGED <<args, fp32, i, samples_bound, samples, L, dim, nq, q_grid, q_norm,
                   j, q, s, S_q, S_q2, timer_gpu, timer_host, idx, plotted, shown, calls>>

\* lines 64-68: the assignment to samples, given the integers of --sample
ReadSamples(r, ix) ==
    IF Len(ix) = 1 THEN [bound |-> TRUE, val |-> <<r[ix[1] + 1]>>]
    ELSE IF Len(ix) = 2 THEN [bound |-> TRUE, val |-> Slice(r, ix[1], ix[2])]
    ELSE [bound |-> samples_bound, val |-> samples]

\* lines 54-84: read samples, box length and dimension, close the file
ReadFile ==
    /\ pc = "read"
    /\ LET toks == SplitColon(args.sample)
           ix == [k \in 1..Len(toks) |-> IntOf(toks[k])]
       IN  IF ~File.nodes
           THEN Raise("SystemExit", 82) /\ UNCHANGED <<samples_bound, samples, L, dim>>
           ELSE IF \E k \in 1..Len(toks) : ~IsInt(toks[k])
           THEN Raise("ValueError", 64) /\ UNCHANGED <<samples_bound, samples, L, dim>>
           ELSE IF Len(ix) = 1 /\ ix[1] >= Len(File.r)
           THEN Raise("SystemExit", 80) /\ UNCHANGED <<samples_bound, samples, L, dim>>
           ELSE /\ samples_bound' = ReadSamples(File.r, ix).bound
                /\ samples' = ReadSamples(File.r, ix).val
                /\ L' = File.l
                /\ dim' = File.dim
                /\ pc' = "grid"
                /\ error' = error
    /\ UNCHANGED <<args, fp32, i, nq, q_grid, q_norm, j, q, s, S_q, S_q2, timer_gpu,
                   timer_host, idx, plotted, shown, calls>>

\* lines 86-94: q_min, nq, q_err and the q-grid.  2 * pi / L with L = 0 is
\* inf on a numpy float and a ZeroDivisionError on a Python float
GenGrid ==
    /\ pc = "grid"
    /\ \E numpy_float \in BOOLEAN :
        IF L = 0 /\ ~numpy_float
        THEN Raise("ZeroDivisionError", 87) /\ UNCHANGED <<nq, q_grid>>
        ELSE IF NumQ(args.q_limit, L) + 1 < 0
        THEN Raise("ValueError", 94) /\ nq' = NumQ(args.q_limit, L) /\ q_grid' = q_grid
        ELSE /\ nq' = NumQ(args.q_limit, L)
             /\ q_grid' = QGrid(nq', dim)
             /\ pc' = "norm"
             /\ error' = error
    /\ UNCHANGED <<args, fp32, i, samples_bound, samples, L, dim, q_norm, j, q, s, S_q, S_q2,
                   timer_gpu, timer_host, idx, plotted, shown, calls>>

\* lines 96-99: the norms of the grid vectors and the |q| range
Norms ==
    /\ pc = "norm"
    /\ IF Len(q_grid.shape) < 2
       THEN Raise("ValueError", 96) /\ q_norm' = q_norm
       ELSE q_norm' = QNorm2(q_grid) /\ pc' = "sums" /\ error' = error
    /\ UNCHANGED <<args, fp32, i, samples_bound, samples, L, dim, nq, q_grid, j, q, s, S_q, S_q2,
                   timer_gpu, timer_host, idx, plotted, shown, calls>>

\* zeros(n)
Zeros(n) == [k \in 1..n |-> Zero]

\* lines 103-106: the sums and the timers start at zero
InitSums ==
    /\ pc = "sums"
    /\ IF nq < 0
       THEN Raise("ValueError", 103) /\ UNCHANGED <<S_q, S_q2, timer_gpu, timer_host, j, calls>>
       ELSE /\ S_q' = Zeros(nq)
            /\ S_q2' = Zeros(nq)
            /\ timer_host' = 0
            /\ timer_gpu' = 0
            /\ j' = 1
            /\ calls' = <<>>
            /\ pc' = "shell"
            /\ error' = error
    /\ UNCHANGED <<args, fp32, i, samples_bound, samples, L, dim, nq, q_grid, q_norm, q, s,
                   idx, plotted, shown>>

\* lines 107-111: the next shell, or the end of the loop over q_range
SelectQ ==
    /\ pc = "shell"
    /\ IF j > nq
       THEN pc' = "check" /\ UNCHANGED <<q, s>>
       ELSE /\ q' = SelectShell(q_grid, q_norm, j, args.q_error, Sign(L))
            /\ s' = 1
            /\ pc' = "kernel"
    /\ UNCHANGED <<args, fp32, error, i, samples_bound, samples, L, dim, nq, q_grid, q_norm, j,
                   S_q, S_q2, timer_gpu, timer_host, idx, plotted, shown, calls>>

\* timer += t2 - t1; past MaxTicks a timer is no longer told apart
AddTime(timer, d) == Min(timer + d, MaxTicks)

\* S += v, every shell instead of shell k
AccumulateEveryShell(S, k, v) == [x \in 1..Len(S) |-> RAdd(S[x], v)]

\* S[k] += v
Accumulate(S, k, v) == [S EXCEPT ![k] = RAdd(@, v)]

\* the host value goes to S_q, the CUDA value to S_q2
CudaSumsSwapped(a, b) == [S_q |-> Accumulate(S_q, j, b), S_q2 |-> Accumulate(S_q2, j, a)]

\* lines 116 and 118: the CUDA value goes to S_q, the host value to S_q2
CudaSums(a, b) == [S_q |-> Accumulate(S_q, j, a), S_q2 |-> Accumulate(S_q2, j, b)]

\* lines 113-123: one sample of shell j, or the end of the loop over samples
Kernel ==
    /\ pc = "kernel"
    /\ IF ~samples_bound
       THEN Raise("NameError", 113)
            /\ UNCHANGED <<j, s, S_q, S_q2, timer_gpu, timer_host, calls>>
       ELSE IF s > Len(samples)
       THEN /\ j' = j + 1
            /\ pc' = "shell"
            /\ UNCHANGED <<error, s, S_q, S_q2, timer_gpu, timer_host, calls>>
       ELSE \E b \in StaticStructureFactor(q, dim, samples[s]) :
            IF args.cuda
            THEN LET a == SsfCuda(q, dim, samples[s], fp32) IN
                 IF ~a.ok
                 THEN Raise(a.err, a.line)
                      /\ UNCHANGED <<j, s, S_q, S_q2, timer_gpu, timer_host, calls>>
                 ELSE IF ~b.ok
                 THEN Raise(b.err, 118)
                      /\ S_q' = Accumulate(S_q, j, a.val)
                      /\ UNCHANGED <<j, s, S_q2, timer_gpu, timer_host, calls>>
                 ELSE /\ S_q' = CudaSums(a.val, b.val).S_q
                      /\ S_q2' = CudaSums(a.val, b.val).S_q2
                      /\ calls' = Append(calls, [j |-> j, s |-> s, gpu |-> <<a.val>>, host |-> <<b.val>>])
                      /\ s' = s + 1
                      /\ \E d_gpu \in TimeDeltas : timer_gpu' = AddTime(timer_gpu, d_gpu)
                      /\ \E d_host \in TimeDeltas : timer_host' = AddTime(timer_host, d_host)
                      /\ UNCHANGED <<pc, error, j>>
            ELSE IF ~b.ok
                 THEN Raise(b.err, 123)
                      /\ UNCHANGED <<j, s, S_q, S_q2, timer_gpu, timer_host, calls>>
                 ELSE /\ S_q' = Accumulate(S_q, j, b.val)
                      /\ calls' = Append(calls, [j |-> j, s |-> s, gpu |-> <<>>, host |-> <<b.val>>])
                      /\ s' = s + 1
                      /\ UNCHANGED <<pc, error, j, S_q2, timer_gpu, timer_host>>
    /\ UNCHANGED <<args, fp32, i, samples_bound, samples, L, dim, nq, q_grid, q_norm, q,
                   idx, plotted, shown>>

\* the relative deviation reported at 1e-6
Tolerance == Rat(1, 1000000)

\* lines 124-125: where(abs(S_q - S_q2) / S_q > 1e-6); x/0 is inf or nan
Deviating(Sq, Sq2) ==
    {k \in 1..Len(Sq) :
        LET diff == RDiv(RAbs(RSub(Sq[k], Sq2[k])), Sq[k])
        IN  IF diff.d = 0 THEN diff.n > 0 ELSE RLess(Tolerance, diff)}

\* lines 124-126: the deviations between S_q and S_q2 are computed and printed
Check ==
    /\ pc = "check"
    /\ idx' = Deviating(S_q, S_q2)
    /\ pc' = "timing"
    /\ UNCHANGED <<args, fp32, error, i, samples_bound, samples, L, dim, nq, q_grid, q_norm,
                   j, q, s, S_q, S_q2, timer_gpu, timer_host, plotted, shown, calls>>

\* lines 127-129: the execution times and 'Speedup', timer_host / timer_gpu
Timing ==
    /\ pc = "timing"
    /\ IF timer_gpu = 0
       THEN Raise("ZeroDivisionError", 129)
       ELSE pc' = "divide" /\ error' = error
    /\ UNCHANGED <<args, fp32, i, samples_bound, samples, L, dim, nq, q_grid, q_norm,
                   j, q, s, S_q, S_q2, timer_gpu, timer_host, idx, plotted, shown, calls>>

\* S /= n on a numpy array: no exception when n = 0
DivideBy(S, n) == [k \in 1..Len(S) |-> RDiv(S[k], Rat(n, 1))]

\* line 131: S_q /= samples.shape[0]
Divide ==
    /\ pc = "divide"
    /\ S_q' = DivideBy(S_q, Len(samples))
    /\ pc' = "plotfile"
    /\ UNCHANGED <<args, fp32, error, i, samples_bound, samples, L, dim, nq, q_grid, q_norm,
                   j, q, s, S_q2, timer_gpu, timer_host, idx, plotted, shown, calls>>

\* lines 133-150: S_q of this file is plotted (and dumped); then the next file
PlotFile ==
    /\ pc = "plotfile"
    /\ plotted' = Append(plotted, [file |-> i, q_range |-> nq, S_q |-> S_q])
    /\ IF i < Len(args.input)
       THEN i' = i + 1 /\ pc' = "open"
       ELSE i' = i /\ pc' = "finish"
    /\ UNCHANGED <<args, fp32, error, samples_bound, samples, L, dim, nq, q_grid, q_norm,
                   j, q, s, S_q, S_q2, timer_gpu, timer_host, idx, shown, calls>>

\* lines 152-185: the figure is shown or saved
Finish ==
    /\ pc = "finish"
    /\ shown' = TRUE
    /\ pc' = "done"
    /\ UNCHANGED <<args, fp32, error, i, samples_bound, samples, L, dim, nq, q_grid, q_norm,
                   j, q, s, S_q, S_q2, timer_gpu, timer_host, idx, plotted, calls>>

Next ==
    \/ Start
    \/ OpenFile
    \/ ReadFile
    \/ GenGrid
    \/ Norms
    \/ InitSums
    \/ SelectQ
    \/ Kernel
    \/ Check
    \/ Timing
    \/ Divide
    \/ PlotFile
    \/ Finish

Spec == Init /\ [][Next]_vars

\* ------------------------------------------------------------ the claims
\* the kernel values of shell k in call order, and the samples they are of
CallsOfShell(k) == SelectSeq(calls, LAMBDA c : c.j = k)
GpuValues(k) == [c \in 1..Len(CallsOfShell(k)) |-> CallsOfShell(k)[c].gpu[1]]
HostValues(k) == [c \in 1..Len(CallsOfShell(k)) |-> CallsOfShell(k)[c].host[1]]
SamplesOf(k) == [c \in 1..Len(CallsOfShell(k)) |-> CallsOfShell(k)[c].s]
Mean(vals) == RDiv(RSumSeq(vals), Rat(Len(vals), 1))

\* the states in which S_q of file i is, or has just been, handed to the
\* plot, and the values handed
HandingOver ==
    \/ pc = "plotfile"
    \/ pc \in {"open", "read", "finish", "done"} /\ plotted # <<>>
Handed == IF pc = "plotfile" THEN S_q ELSE plotted[Len(plotted)].S_q

\* what the command line and the files say, file k of the command line
FileAt(k) == Store[args.input[k]]
Tokens == SplitColon(args.sample)
AllInts == \A t \in 1..Len(Tokens) : IsInt(Tokens[t])
SingleIndex == AllInts /\ Len(Tokens) = 1
IndexRange == AllInts /\ Len(Tokens) = 2
InRange(k) ==
    \/ SingleIndex /\ IntOf(Tokens[1]) < Len(FileAt(k).r)
    \/ IndexRange /\ IntOf(Tokens[1]) < IntOf(Tokens[2]) /\ IntOf(Tokens[2]) <= Len(FileAt(k).r)

\* C1: the value handed on for shell k is the arithmetic mean of the
\* kernel's values for that shell: the sum of shell k receives one kernel
\* value per sample, in order, none of another shell, and is divided once
\* by the number of samples.
C1_MeanOverSamples ==
    /\ pc \in {"check", "timing", "divide"} =>
          \A k \in 1..Len(S_q) :
              /\ SamplesOf(k) = [c \in 1..Len(samples) |-> c]
              /\ \/ args.cuda /\ S_q[k] = RSumSeq(GpuValues(k))
                 \/ S_q[k] = RSumSeq(HostValues(k))
    /\ (HandingOver /\ samples # <<>>) =>
          \A k \in 1..Len(Handed) :
              /\ SamplesOf(k) = [c \in 1..Len(samples) |-> c]
              /\ \/ args.cuda /\ Handed[k] = Mean(GpuValues(k))
                 \/ Handed[k] = Mean(HostValues(k))

\* C1 witness: kernel values 1, 3, 2 for three samples of shell 1 give 2
C1_Witness ==
    /\ pc = "plotfile"
    /\ Len(samples) = 3
    /\ GpuValues(1) = <<Rat(1, 1), Rat(3, 1), Rat(2, 1)>>
    /\ S_q[1] = Rat(2, 1)

\* C2 as claimed: with the accelerated path enabled, the values handed to
\* the plot are the ones accumulated from the reference (host) kernel.
C2_ReferenceValuesPlotted ==
    (HandingOver /\ args.cuda /\ samples # <<>>) =>
        \A k \in 1..Len(Handed) : Handed[k] = Mean(HostValues(k))

\* C2 as amended: with the accelerated path enabled, the values handed to
\* the plot are the ones accumulated from the accelerated (CUDA) kernel,
\* and the consistency check leaves the sums as they were: before and
\* after it, S_q holds the sums of the CUDA values.
C2_AcceleratedValuesPlotted ==
    args.cuda =>
        /\ pc \in {"check", "timing", "divide"} =>
              \A k \in 1..Len(S_q) : S_q[k] = RSumSeq(GpuValues(k))
        /\ (HandingOver /\ samples # <<>>) =>
              \A k \in 1..Len(Handed) : Handed[k] = Mean(GpuValues(k))

\* C2 witness: a plotted CUDA mean that differs from the host mean
C2_Witness ==
    /\ pc = "plotfile"
    /\ args.cuda
    /\ nq >= 1
    /\ idx # {}
    /\ S_q[1] = Mean(GpuValues(1))
    /\ S_q[1] # Mean(HostValues(1))

\* C3: a run on well-formed input (every file opens and has its nodes, the
\* sample selector is in range, box length, q_limit and q_error are
\* positive) does not end with an error, with or without CUDA.
WellFormed ==
    /\ args.q_limit > 0
    /\ args.q_error > 0
    /\ \A k \in 1..Len(args.input) :
          FileAt(k).exists /\ FileAt(k).nodes /\ FileAt(k).l > 0 /\ InRange(k)
C3_WellFormedRunCompletes == WellFormed => pc # "error"

\* C4: the consistency check (lines 124-129) is executed only in runs with
\* the accelerated path enabled.
C4_CheckOnlyWithCuda == pc = "timing" => args.cuda

\* C5: a sample selector, single index or range, that refers to samples
\* outside the stored trajectory fails before a shell is computed; no
\* shell is computed for an empty set of samples.
C5_OutOfRangeFailsEarly ==
    (pc = "kernel" /\ (SingleIndex \/ IndexRange)) => (InRange(i) /\ samples # <<>>)

\* C6: a kernel given zero wavevectors does not divide by zero: the run
\* either goes on (a sentinel was returned) or ends with InvalidParameter.
C6_EmptyShellNoZeroDivision ==
    (pc = "error" /\ error.line \in {264, 118, 123} /\ q = <<>>) =>
        error.kind = "InvalidParameter"

\* C7: a non-positive box length, a non-positive q_limit or a malformed
\* sample string ends the run with an error raised before the lattice is
\* generated.
Malformed == ~(SingleIndex \/ IndexRange)
C7_BadParameterFailsFast ==
    (i >= 1 /\ FileAt(i).exists /\ FileAt(i).nodes
        /\ (FileAt(i).l <= 0 \/ args.q_limit <= 0 \/ Malformed)) =>
        /\ pc \in {"open", "read", "grid", "error"}
        /\ pc = "error" => error.line < 94

\* C8: when an input file fails with missing data (it does not open, a
\* node is absent, or the sample index is out of range), the invocation is
\* aborted there: the file is not skipped, no later file is opened, and
\* the figure is neither shown nor saved.
MissingData(k) ==
    \/ ~FileAt(k).exists
    \/ ~FileAt(k).nodes
    \/ SingleIndex /\ IntOf(Tokens[1]) >= Len(FileAt(k).r)
C8_MissingDataAborts ==
    \A k \in 1..Len(args.input) :
        (MissingData(k) /\ (i > k \/ (i = k /\ pc \notin {"open", "read"}))) =>
            /\ pc = "error"
            /\ error.kind = "SystemExit"
            /\ i = k
            /\ ~shown
            /\ \A p \in 1..Len(plotted) : plotted[p].file < k
            /\ ~ENABLED Next

\* C8 witness: the second file fails after the first has been plotted
C8_Witness ==
    /\ pc = "error"
    /\ error.kind = "SystemExit"
    /\ i = 2
    /\ Len(plotted) = 1
    /\ MissingData(2)

\* C9: for L > 0, D in {2, 3} and q_limit > 0, n_q = 0 included, the
\* lattice has exactly (n_q+1)^D wavevectors of D components, the full
\* product of 0..n_q per axis, each once, n_q = floor(q_limit L / 2 pi).
C9_LatticeIsFullProduct ==
    (pc = "norm" /\ L > 0 /\ args.q_limit > 0) =>
        LET n == (args.q_limit * L) \div 2
        IN  /\ q_grid.shape = <<Pow(n + 1, dim), dim>>
            /\ {Row(q_grid, p) : p \in 0..(Pow(n + 1, dim) - 1)} = [1..dim -> 0..n]

\* C10: in every run with q_error > 0 every shell asked for is non-empty,
\* so that no kernel is called with zero wavevectors.
C10_ShellsNonEmpty == (pc = "kernel" /\ args.q_error > 0) => q # <<>>

====
